---- MODULE Spec2Model ----
(***************************************************************************)
(* The doubly linked list of src/main.py (class DoublyLinkedList, with its *)
(* Node cells and its operation_history) and the commands of the window   *)
(* that drive it.  A list object is a record L: head, tail, length, the    *)
(* three attribute maps of its live Node objects (next, prev, value) and   *)
(* operation_history.  Every method is an operator from a list object to   *)
(* the list object it leaves, written statement by statement.              *)
(***************************************************************************)
EXTENDS Integers, Sequences, FiniteSets, TLC

VARIABLES head, tail, length, next, prev, value, operation_history,
          lastCall, trace, undos, tick, args, old, threads, canvas

vars == <<head, tail, length, next, prev, value, operation_history,
          lastCall, trace, undos, tick, args, old, threads, canvas>>

\* The fields of the DoublyLinkedList object and of its nodes.
list_vars == <<head, tail, length, next, prev, value, operation_history>>

\* Bookkeeping of the undo scenario (UndoSpec).
undo_vars == <<trace, undos, tick>>

\* What CallSpec keeps of the last call: its arguments, and the list object
\* it was made on.
call_vars == <<args, old>>

\* The calls in progress of RaceSpec.
race_vars == <<threads>>

\* What the renderer of DrawSpec has drawn.
draw_vars == <<canvas>>

\* Spec leaves the bookkeeping of the other specifications alone.
scenario_vars == <<undo_vars, call_vars, race_vars, draw_vars>>

---------------------------------------------------------------------------
(* Bounds of the model *)

\* The longest list an action may leave.
MaxLen == 3

\* The longest operation_history an action of Spec may leave.
MaxHist == 2

\* The longest list handed to a bulk load.
MaxLoad == 1

\* The most operations of an undo scenario before its undo calls start.
MaxOps == 3

\* The longest operation_history a call of CallSpec may leave, and a load of
\* LoadSpec may find.
MaxEntries == 1

\* The longest list RaceSpec builds before its two calls start.
MaxRaceLen == 3

\* The longest list of texts a command of LoadSpec is given.
MaxTexts == 2

\* The longest operation_history an insert, delete or clear of EditSpec may
\* leave.
MaxEdits == 4

\* The longest list NodeSpec builds.
MaxNodes == 5

\* The text values the commands are given.
Values == {"A", "B"}

---------------------------------------------------------------------------
(* Python's None *)

\* None as a node reference (head, tail, next, prev); nodes are 1, 2, ...
NoneRef == 0

\* None as the index of a history entry (clear records index None).
NoneIdx == -1

\* None as a value (clear records value None; a method that returns nothing).
NoneVal == "None"

---------------------------------------------------------------------------
(* Node objects *)

\* The live Node objects of L.
Nodes(L) == DOMAIN L.value

\* str(value) of a text value: Python's str() returns a str unchanged.
str(v) == v

\* The identity of the object a Node(...) call creates: the first free one.
NewId(L) == CHOOSE n \in 1..(Cardinality(Nodes(L)) + 1) :
                /\ n \notin Nodes(L)
                /\ \A m \in 1..(n - 1) : m \in Nodes(L)

\* Node.__init__: value = str(value), next = None, prev = None.
Node(L, v) == [L EXCEPT !.value = (NewId(L) :> str(v)) @@ @,
                        !.next  = (NewId(L) :> NoneRef) @@ @,
                        !.prev  = (NewId(L) :> NoneRef) @@ @]

\* The nodes some reference chain from head or tail leads to.
RECURSIVE closure(_, _)
closure(L, S) ==
    LET T == (S \cup {L.next[n] : n \in S} \cup {L.prev[n] : n \in S})
                 \ {NoneRef}
    IN  IF T = S THEN S ELSE closure(L, T)

Reach(L) == closure(L, {L.head, L.tail} \ {NoneRef})

\* The nodes met by following next from cur until None.
RECURSIVE walk(_, _)
walk(L, cur) == IF cur = NoneRef THEN <<>>
                ELSE <<cur>> \o walk(L, L.next[cur])

\* The members of a set of nodes, smallest identity first.
RECURSIVE in_order(_)
in_order(S) == IF S = {} THEN <<>>
               ELSE LET m == CHOOSE n \in S : \A k \in S : n <= k
                    IN  <<m>> \o in_order(S \ {m})

\* The live nodes in a fixed order: those of the chain from head by
\* position, then any other node a reference still leads to.
Order(L) ==
    LET w == walk(L, L.head)
        S == {w[i] : i \in 1..Len(w)}
        closed == /\ L.tail \in S \cup {NoneRef}
                  /\ \A n \in S : L.prev[n] \in S \cup {NoneRef}
    IN  IF closed THEN w ELSE w \o in_order(Reach(L) \ S)

\* A Node no reference leads to is gone (Python reclaims it), and the
\* identity of a Node is never read (Node.id is unused): the nodes that are
\* left are numbered 1, 2, ... in Order.
Collect(L) ==
    LET ord == Order(L)
        pos(n) == IF n = NoneRef THEN NoneRef
                  ELSE CHOOSE i \in 1..Len(ord) : ord[i] = n
    IN  [head |-> pos(L.head), tail |-> pos(L.tail), length |-> L.length,
         next |-> [i \in 1..Len(ord) |-> pos(L.next[ord[i]])],
         prev |-> [i \in 1..Len(ord) |-> pos(L.prev[ord[i]])],
         value |-> [i \in 1..Len(ord) |-> L.value[ord[i]]],
         operation_history |-> L.operation_history]

---------------------------------------------------------------------------
(* DoublyLinkedList *)

\* DoublyLinkedList.__init__
NewList == [head |-> NoneRef, tail |-> NoneRef, length |-> 0,
            next |-> <<>>, prev |-> <<>>, value |-> <<>>,
            operation_history |-> <<>>]

\* The loop of to_list: append current.value, then current = current.next.
RECURSIVE values_from(_, _)
values_from(L, current) ==
    IF current = NoneRef THEN <<>>
    ELSE <<L.value[current]>> \o values_from(L, L.next[current])

\* to_list: the values met by following next from head until None.
to_list(L) == values_from(L, L.head)

\* _record_operation whose entries all hold one live state, not a copy each.
_record_operation_shares_state(L, op_type, v, index) ==
    [L EXCEPT !.operation_history =
        [i \in 1..(Len(@) + 1) |->
            IF i <= Len(@)
            THEN [@[i] EXCEPT !.state = to_list(L)]
            ELSE [type |-> op_type, value |-> v, index |-> index,
                  state |-> to_list(L)]]]

\* _record_operation: append {type, value, index, state} (the timestamp is
\* display only and is left out).
_record_operation(L, op_type, v, index) ==
    [L EXCEPT !.operation_history =
        Append(@, [type |-> op_type, value |-> v, index |-> index,
                   state |-> to_list(L)])]

\* insert_at_head without its line "self.length += 1".
insert_at_head_keeps_length(L, v) ==
    LET new_node == NewId(L)
        L1 == Node(L, v)
        L2 == IF L1.head = NoneRef
              THEN [L1 EXCEPT !.head = new_node, !.tail = new_node]
              ELSE LET a == [L1 EXCEPT !.next[new_node] = L1.head]
                       b == [a EXCEPT !.prev[a.head] = new_node]
                   IN  [b EXCEPT !.head = new_node]
    IN  _record_operation(L2, "INSERT_HEAD", v, 0)

\* insert_at_head
insert_at_head(L, v) ==
    LET new_node == NewId(L)
        L1 == Node(L, v)
        L2 == IF L1.head = NoneRef
              THEN [L1 EXCEPT !.head = new_node, !.tail = new_node]
              ELSE LET a == [L1 EXCEPT !.next[new_node] = L1.head]
                       b == [a EXCEPT !.prev[a.head] = new_node]
                   IN  [b EXCEPT !.head = new_node]
        L3 == [L2 EXCEPT !.length = @ + 1]
    IN  _record_operation(L3, "INSERT_HEAD", v, 0)

\* insert_at_tail without its line "self.tail = new_node".
insert_at_tail_keeps_tail(L, v) ==
    LET new_node == NewId(L)
        L1 == Node(L, v)
        L2 == IF L1.head = NoneRef
              THEN [L1 EXCEPT !.head = new_node, !.tail = new_node]
              ELSE LET a == [L1 EXCEPT !.prev[new_node] = L1.tail]
                   IN  [a EXCEPT !.next[a.tail] = new_node]
        L3 == [L2 EXCEPT !.length = @ + 1]
    IN  _record_operation(L3, "INSERT_TAIL", v, L3.length - 1)

\* insert_at_tail recording self.length, not self.length - 1, as the index.
insert_at_tail_records_length(L, v) ==
    LET new_node == NewId(L)
        L1 == Node(L, v)
        L2 == IF L1.head = NoneRef
              THEN [L1 EXCEPT !.head = new_node, !.tail = new_node]
              ELSE LET a == [L1 EXCEPT !.prev[new_node] = L1.tail]
                       b == [a EXCEPT !.next[a.tail] = new_node]
                   IN  [b EXCEPT !.tail = new_node]
        L3 == [L2 EXCEPT !.length = @ + 1]
    IN  _record_operation(L3, "INSERT_TAIL", v, L3.length)

\* insert_at_tail
insert_at_tail(L, v) ==
    LET new_node == NewId(L)
        L1 == Node(L, v)
        L2 == IF L1.head = NoneRef
              THEN [L1 EXCEPT !.head = new_node, !.tail = new_node]
              ELSE LET a == [L1 EXCEPT !.prev[new_node] = L1.tail]
                       b == [a EXCEPT !.next[a.tail] = new_node]
                   IN  [b EXCEPT !.tail = new_node]
        L3 == [L2 EXCEPT !.length = @ + 1]
    IN  _record_operation(L3, "INSERT_TAIL", v, L3.length - 1)

\* k times cur = cur.next
RECURSIVE forward(_, _, _)
forward(L, cur, k) == IF k = 0 THEN cur ELSE forward(L, L.next[cur], k - 1)

\* k times cur = cur.prev
RECURSIVE backward(_, _, _)
backward(L, cur, k) == IF k = 0 THEN cur ELSE backward(L, L.prev[cur], k - 1)

\* _get_node whose backward loop is range(self.length - index).
_get_node_one_more_back(L, index) ==
    IF index < 0 \/ index >= L.length
    THEN [exc |-> "IndexError", node |-> NoneRef, steps |-> 0]
    ELSE IF index <= L.length \div 2
         THEN [exc |-> "", node |-> forward(L, L.head, index), steps |-> index]
         ELSE [exc |-> "", node |-> backward(L, L.tail, L.length - index),
               steps |-> L.length - index]

\* _get_node that always walks from head.
_get_node_from_head(L, index) ==
    IF index < 0 \/ index >= L.length
    THEN [exc |-> "IndexError", node |-> NoneRef, steps |-> 0]
    ELSE [exc |-> "", node |-> forward(L, L.head, index), steps |-> index]

\* _get_node: from head when index <= length // 2, else from tail.  steps is
\* the number of times its loop runs: range(index), or
\* range(length - 1 - index).
_get_node(L, index) ==
    IF index < 0 \/ index >= L.length
    THEN [exc |-> "IndexError", node |-> NoneRef, steps |-> 0]
    ELSE IF index <= L.length \div 2
         THEN [exc |-> "", node |-> forward(L, L.head, index), steps |-> index]
         ELSE [exc |-> "", node |-> backward(L, L.tail, L.length - 1 - index),
               steps |-> L.length - 1 - index]

\* splice_before without its line "current.prev = new_node".
splice_before_keeps_prev(L, index, v) ==
    LET new_node == NewId(L)
        L1 == Node(L, v)
        current == _get_node(L1, index).node
        L2 == [L1 EXCEPT !.prev[new_node] = L1.prev[current]]
        L3 == [L2 EXCEPT !.next[new_node] = current]
        L4 == IF L3.prev[current] # NoneRef
              THEN [L3 EXCEPT !.next[L3.prev[current]] = new_node]
              ELSE L3
        L6 == [L4 EXCEPT !.length = @ + 1]
    IN  _record_operation(L6, "INSERT_POS", v, index)

\* splice_before that takes the node at index - 1 for current.
splice_before_previous(L, index, v) ==
    LET new_node == NewId(L)
        L1 == Node(L, v)
        current == _get_node(L1, index - 1).node
        L2 == [L1 EXCEPT !.prev[new_node] = L1.prev[current]]
        L3 == [L2 EXCEPT !.next[new_node] = current]
        L4 == IF L3.prev[current] # NoneRef
              THEN [L3 EXCEPT !.next[L3.prev[current]] = new_node]
              ELSE L3
        L5 == [L4 EXCEPT !.prev[current] = new_node]
        L6 == [L5 EXCEPT !.length = @ + 1]
    IN  _record_operation(L6, "INSERT_POS", v, index)

\* insert_at_position, its last branch (0 < index < length): the new node
\* goes in before the node now at index.
splice_before(L, index, v) ==
    LET new_node == NewId(L)
        L1 == Node(L, v)
        current == _get_node(L1, index).node
        L2 == [L1 EXCEPT !.prev[new_node] = L1.prev[current]]
        L3 == [L2 EXCEPT !.next[new_node] = current]
        L4 == IF L3.prev[current] # NoneRef
              THEN [L3 EXCEPT !.next[L3.prev[current]] = new_node]
              ELSE L3
        L5 == [L4 EXCEPT !.prev[current] = new_node]
        L6 == [L5 EXCEPT !.length = @ + 1]
    IN  _record_operation(L6, "INSERT_POS", v, index)

\* insert_at_position that appends when index > length.
insert_at_position_clamps(L, index, v) ==
    IF index < 0
    THEN [self |-> L, exc |-> "IndexError"]
    ELSE IF index = 0
         THEN [self |-> insert_at_head(L, v), exc |-> ""]
         ELSE IF index >= L.length
              THEN [self |-> insert_at_tail(L, v), exc |-> ""]
              ELSE [self |-> splice_before(L, index, v), exc |-> ""]

\* insert_at_position
insert_at_position(L, index, v) ==
    IF index < 0 \/ index > L.length
    THEN [self |-> L, exc |-> "IndexError"]
    ELSE IF index = 0
         THEN [self |-> insert_at_head(L, v), exc |-> ""]
         ELSE IF index = L.length
              THEN [self |-> insert_at_tail(L, v), exc |-> ""]
              ELSE [self |-> splice_before(L, index, v), exc |-> ""]

\* unlink whose first branch is "self.head = None", the tail left as it was.
unlink_keeps_tail(L, index) ==
    IF L.length = 1
    THEN [value |-> L.value[L.head], self |-> [L EXCEPT !.head = NoneRef]]
    ELSE IF index = 0
    THEN LET a == [L EXCEPT !.head = L.next[L.head]]
         IN  [value |-> L.value[L.head],
              self |-> IF a.head # NoneRef
                       THEN [a EXCEPT !.prev[a.head] = NoneRef]
                       ELSE a]
    ELSE IF index = L.length - 1
    THEN LET a == [L EXCEPT !.tail = L.prev[L.tail]]
         IN  [value |-> L.value[L.tail],
              self |-> IF a.tail # NoneRef
                       THEN [a EXCEPT !.next[a.tail] = NoneRef]
                       ELSE a]
    ELSE LET current == _get_node(L, index).node
             a == [L EXCEPT !.next[L.prev[current]] = L.next[current]]
         IN  [value |-> L.value[current],
              self |-> [a EXCEPT !.prev[a.next[current]] = a.prev[current]]]

\* unlink without the line "current.prev.next = current.next" of its last
\* branch.
unlink_keeps_prev_next(L, index) ==
    IF L.length = 1
    THEN [value |-> L.value[L.head],
          self |-> [L EXCEPT !.head = NoneRef, !.tail = NoneRef]]
    ELSE IF index = 0
    THEN LET a == [L EXCEPT !.head = L.next[L.head]]
         IN  [value |-> L.value[L.head],
              self |-> IF a.head # NoneRef
                       THEN [a EXCEPT !.prev[a.head] = NoneRef]
                       ELSE a]
    ELSE IF index = L.length - 1
    THEN LET a == [L EXCEPT !.tail = L.prev[L.tail]]
         IN  [value |-> L.value[L.tail],
              self |-> IF a.tail # NoneRef
                       THEN [a EXCEPT !.next[a.tail] = NoneRef]
                       ELSE a]
    ELSE LET current == _get_node(L, index).node
         IN  [value |-> L.value[current],
              self |-> [L EXCEPT !.prev[L.next[current]] = L.prev[current]]]

\* unlink without the lines "self.head.prev = None" and
\* "self.tail.next = None" of its second and third branch.
unlink_keeps_end_links(L, index) ==
    IF L.length = 1
    THEN [value |-> L.value[L.head],
          self |-> [L EXCEPT !.head = NoneRef, !.tail = NoneRef]]
    ELSE IF index = 0
    THEN [value |-> L.value[L.head],
          self |-> [L EXCEPT !.head = L.next[L.head]]]
    ELSE IF index = L.length - 1
    THEN [value |-> L.value[L.tail],
          self |-> [L EXCEPT !.tail = L.prev[L.tail]]]
    ELSE LET current == _get_node(L, index).node
             a == [L EXCEPT !.next[L.prev[current]] = L.next[current]]
         IN  [value |-> L.value[current],
              self |-> [a EXCEPT !.prev[a.next[current]] = a.prev[current]]]

\* delete_at_position, its four branches: the value of the node at index and
\* the list with that node taken out of the chain.
unlink(L, index) ==
    IF L.length = 1
    THEN [value |-> L.value[L.head],
          self |-> [L EXCEPT !.head = NoneRef, !.tail = NoneRef]]
    ELSE IF index = 0
    THEN LET a == [L EXCEPT !.head = L.next[L.head]]
         IN  [value |-> L.value[L.head],
              self |-> IF a.head # NoneRef
                       THEN [a EXCEPT !.prev[a.head] = NoneRef]
                       ELSE a]
    ELSE IF index = L.length - 1
    THEN LET a == [L EXCEPT !.tail = L.prev[L.tail]]
         IN  [value |-> L.value[L.tail],
              self |-> IF a.tail # NoneRef
                       THEN [a EXCEPT !.next[a.tail] = NoneRef]
                       ELSE a]
    ELSE LET current == _get_node(L, index).node
             a == [L EXCEPT !.next[L.prev[current]] = L.next[current]]
         IN  [value |-> L.value[current],
              self |-> [a EXCEPT !.prev[a.next[current]] = a.prev[current]]]

\* delete_at_position without its line "self.length -= 1".
delete_at_position_keeps_length(L, index) ==
    IF index < 0 \/ index >= L.length
    THEN [self |-> L, exc |-> "IndexError", ret |-> NoneVal]
    ELSE LET u == unlink(L, index)
         IN  [self |-> _record_operation(u.self, "DELETE", u.value, index),
              exc |-> "", ret |-> u.value]

\* delete_at_position that records the call it rejects.
delete_at_position_records_rejected(L, index) ==
    IF index < 0 \/ index >= L.length
    THEN [self |-> _record_operation(L, "DELETE", NoneVal, index),
          exc |-> "IndexError", ret |-> NoneVal]
    ELSE LET u == unlink(L, index)
             L1 == [u.self EXCEPT !.length = @ - 1]
         IN  [self |-> _record_operation(L1, "DELETE", u.value, index),
              exc |-> "", ret |-> u.value]

\* delete_at_position recording its entry before it takes the node out.
delete_at_position_records_first(L, index) ==
    IF index < 0 \/ index >= L.length
    THEN [self |-> L, exc |-> "IndexError", ret |-> NoneVal]
    ELSE LET L0 == _record_operation(L, "DELETE", L.value[_get_node(L, index).node],
                                     index)
             u == unlink(L0, index)
         IN  [self |-> [u.self EXCEPT !.length = @ - 1],
              exc |-> "", ret |-> u.value]

\* delete_at_position
delete_at_position(L, index) ==
    IF index < 0 \/ index >= L.length
    THEN [self |-> L, exc |-> "IndexError", ret |-> NoneVal]
    ELSE LET u == unlink(L, index)
             L1 == [u.self EXCEPT !.length = @ - 1]
         IN  [self |-> _record_operation(L1, "DELETE", u.value, index),
              exc |-> "", ret |-> u.value]

\* The loop of search: the index of the first node from current, counted
\* from index, whose value is v; -1 when current runs out.
RECURSIVE scan(_, _, _, _)
scan(L, current, index, v) ==
    IF current = NoneRef THEN -1
    ELSE IF L.value[current] = v THEN index
         ELSE scan(L, L.next[current], index + 1, v)

\* The loop of a search that starts at the tail and follows prev.
RECURSIVE scan_back(_, _, _, _)
scan_back(L, current, index, v) ==
    IF current = NoneRef THEN -1
    ELSE IF L.value[current] = v THEN index
         ELSE scan_back(L, L.prev[current], index - 1, v)

\* search that scans from the tail: the index of the last match.
search_from_tail(L, v) == scan_back(L, L.tail, L.length - 1, v)

\* search
search(L, v) == scan(L, L.head, 0, v)

\* clear that records before it empties the list.
clear_records_first(L) ==
    LET L1 == _record_operation(L, "CLEAR", NoneVal, NoneIdx)
    IN  Collect([L1 EXCEPT !.head = NoneRef, !.tail = NoneRef, !.length = 0])

\* clear that empties the history with the list.
clear_forgets_history(L) ==
    _record_operation(Collect([L EXCEPT !.head = NoneRef, !.tail = NoneRef,
                                        !.length = 0,
                                        !.operation_history = <<>>]),
                      "CLEAR", NoneVal, NoneIdx)

\* clear
clear(L) ==
    _record_operation(Collect([L EXCEPT !.head = NoneRef, !.tail = NoneRef,
                                        !.length = 0]),
                      "CLEAR", NoneVal, NoneIdx)

\* The loop of _load_from_list: insert_at_tail of each value, in order.
RECURSIVE insert_each(_, _)
insert_each(L, values) ==
    IF values = <<>> THEN L
    ELSE insert_each(insert_at_tail(L, Head(values)), Tail(values))

\* The loop of a _load_from_list that calls insert_at_head.
RECURSIVE insert_each_at_head(_, _)
insert_each_at_head(L, values) ==
    IF values = <<>> THEN L
    ELSE insert_each_at_head(insert_at_head(L, Head(values)), Tail(values))

\* _load_from_list whose loop calls insert_at_head, not insert_at_tail.
_load_from_list_at_head(L, values) ==
    insert_each_at_head(Collect([L EXCEPT !.head = NoneRef, !.tail = NoneRef,
                                          !.length = 0]), values)

\* _load_from_list
_load_from_list(L, values) ==
    insert_each(Collect([L EXCEPT !.head = NoneRef, !.tail = NoneRef,
                                  !.length = 0]), values)

\* undo_last_operation that loads the state of the entry it popped.
undo_last_operation_loads_popped(L) ==
    IF Len(L.operation_history) <= 1
    THEN [self |-> L, ret |-> FALSE]
    ELSE LET L1 == [L EXCEPT !.operation_history = SubSeq(@, 1, Len(@) - 1)]
         IN  IF Len(L1.operation_history) > 0
             THEN [self |-> _load_from_list(L1,
                       L.operation_history[Len(L.operation_history)].state),
                   ret |-> TRUE]
             ELSE [self |-> L1, ret |-> FALSE]

\* undo_last_operation whose first test is "< 1".
undo_last_operation_pops_single(L) ==
    IF Len(L.operation_history) < 1
    THEN [self |-> L, ret |-> FALSE]
    ELSE LET L1 == [L EXCEPT !.operation_history = SubSeq(@, 1, Len(@) - 1)]
         IN  IF Len(L1.operation_history) > 0
             THEN [self |-> _load_from_list(L1,
                       L1.operation_history[Len(L1.operation_history)].state),
                   ret |-> TRUE]
             ELSE [self |-> L1, ret |-> FALSE]

\* undo_last_operation
undo_last_operation(L) ==
    IF Len(L.operation_history) <= 1
    THEN [self |-> L, ret |-> FALSE]
    ELSE LET L1 == [L EXCEPT !.operation_history = SubSeq(@, 1, Len(@) - 1)]
         IN  IF Len(L1.operation_history) > 0
             THEN [self |-> _load_from_list(L1,
                       L1.operation_history[Len(L1.operation_history)].state),
                   ret |-> TRUE]
             ELSE [self |-> L1, ret |-> FALSE]

---------------------------------------------------------------------------
(* The state: one DoublyLinkedList and the outcome of the last call on it *)

\* The list object of the current state.
Self == [head |-> head, tail |-> tail, length |-> length,
         next |-> next, prev |-> prev, value |-> value,
         operation_history |-> operation_history]

\* The list object is L once the call has returned (a call that changed
\* nothing leaves no node to reclaim).
Becomes(L) ==
    LET C == IF L = Self THEN L ELSE Collect(L)
    IN  /\ head' = C.head
        /\ tail' = C.tail
        /\ length' = C.length
        /\ next' = C.next
        /\ prev' = C.prev
        /\ value' = C.value
        /\ operation_history' = C.operation_history

\* What an action of Spec may leave: the bounds of the model.
Within(L) == L.length <= MaxLen /\ Len(L.operation_history) <= MaxHist

\* Spec follows a call only within its bounds (bounded); the undo scenario
\* is bounded by MaxOps alone.
Fits(L, bounded) == bounded => Within(L)

NoCall == [op |-> "init", ret |-> NoneVal, exc |-> ""]

\* The loop of LinkedListVisualizer.draw with no index to highlight: for
\* each node from current on, counted from index, its index label, its
\* value, whether a "next" and a "prev" arrow is drawn, and its colour.
RECURSIVE draw_nodes(_, _, _)
draw_nodes(L, current, index) ==
    IF current = NoneRef THEN <<>>
    ELSE <<[index |-> index,
            value |-> L.value[current],
            has_next |-> L.next[current] # NoneRef,
            has_prev |-> L.prev[current] # NoneRef,
            color |-> IF index = 0 THEN "head"
                      ELSE IF index = L.length - 1 THEN "tail"
                      ELSE "normal"]>>
         \o draw_nodes(L, L.next[current], index + 1)

\* _draw_list_info: the three parts of "Length: .. | Head: .. | Tail: ..".
_draw_list_info(L) ==
    [length |-> ToString(L.length),
     head |-> IF L.head # NoneRef THEN L.value[L.head] ELSE "None",
     tail |-> IF L.tail # NoneRef THEN L.value[L.tail] ELSE "None"]

\* LinkedListVisualizer.draw(): what is on the canvas after it.
draw(L) == [nodes |-> draw_nodes(L, L.head, 0), info |-> _draw_list_info(L)]

\* The arguments of a call that takes none.
NoArgs == [index |-> NoneIdx, value |-> NoneVal]

Init ==
    /\ head = NewList.head
    /\ tail = NewList.tail
    /\ length = NewList.length
    /\ next = NewList.next
    /\ prev = NewList.prev
    /\ value = NewList.value
    /\ operation_history = NewList.operation_history
    /\ lastCall = NoCall
    /\ trace = <<>>
    /\ undos = 0
    /\ tick = 0
    /\ args = NoArgs
    /\ old = NewList
    /\ threads = <<>>
    /\ canvas = draw(NewList)

---------------------------------------------------------------------------
(* The commands of the window (LinkedListApp) that are more than one call *)

\* The loop of a bulk load: insert_at_tail(str(v)) of each loaded value.
RECURSIVE insert_each_str(_, _)
insert_each_str(L, values) ==
    IF values = <<>> THEN L
    ELSE insert_each_str(insert_at_tail(L, str(Head(values))), Tail(values))

\* LinkedListApp._load_from_list and _import_from_json: what was read must be
\* a list; then clear() and insert_at_tail(str(v)) of each value.  An
\* exception is caught and shown in the status bar.
load_from_list(L, data) ==
    IF ~data.is_list
    THEN [self |-> L, exc |-> "ValueError"]
    ELSE [self |-> insert_each_str(clear(L), data.items), exc |-> ""]

\* clear_history: operation_history.clear()
clear_history(L) == [L EXCEPT !.operation_history = <<>>]

\* The sequences over S of length at most n.
SeqsUpTo(S, n) == UNION {[1..k -> S] : k \in 0..n}

\* What a bulk load may read: a list of text values, or something else.
LoadData == {[is_list |-> TRUE, items |-> s] : s \in SeqsUpTo(Values, MaxLoad)}
                \cup {[is_list |-> FALSE, items |-> <<>>]}

---------------------------------------------------------------------------
(* The calls: each one is a whole method call on the list of the state *)

\* A returned True or False as lastCall shows it (what a call returns is
\* kept as text: a value, NoneVal, or one of these two).
shown(b) == IF b THEN "True" ELSE "False"

\* The call leaves list object L and returns r or raises e.
Call(name, L, r, e) ==
    /\ Becomes(L)
    /\ lastCall' = [op |-> name, ret |-> r, exc |-> e]

Call_insert_at_head(v, bounded) ==
    LET L == insert_at_head(Self, v)
    IN  Fits(L, bounded) /\ Call("insert_at_head", L, NoneVal, "")

Call_insert_at_tail(v, bounded) ==
    LET L == insert_at_tail(Self, v)
    IN  Fits(L, bounded) /\ Call("insert_at_tail", L, NoneVal, "")

Call_insert_at_position(index, v, bounded) ==
    LET r == insert_at_position(Self, index, v)
    IN  Fits(r.self, bounded) /\ Call("insert_at_position", r.self, NoneVal, r.exc)

Call_delete_at_position(index, bounded) ==
    LET r == delete_at_position(Self, index)
    IN  Fits(r.self, bounded) /\ Call("delete_at_position", r.self, r.ret, r.exc)

Call_clear(bounded) ==
    LET L == clear(Self)
    IN  Fits(L, bounded) /\ Call("clear", L, NoneVal, "")

Call_undo_last_operation(bounded) ==
    LET r == undo_last_operation(Self)
    IN  Fits(r.self, bounded) /\ Call("undo_last_operation", r.self, shown(r.ret), "")

\* A bulk load of something that is no list stops before any call on the
\* list: nothing of the list, and no call on it, is there to record.
Call_load_from_list(data, bounded) ==
    LET r == load_from_list(Self, data)
    IN  IF r.exc # ""
        THEN UNCHANGED <<list_vars, lastCall>>
        ELSE Fits(r.self, bounded) /\ Call("load_from_list", r.self, NoneVal, "")

Call_clear_history ==
    Call("clear_history", clear_history(Self), NoneVal, "")

\* A search that is recorded in the history.
Call_search_recorded(v) ==
    Call("search", _record_operation(Self, "SEARCH", v, NoneIdx),
         ToString(search(Self, v)), "")

\* search changes no attribute: the list object stays the one it was, and
\* the index it returns is shown as text.
Call_search(v) ==
    Call("search", Self, ToString(search(Self, v)), "")

\* The indices a caller passes: every valid one and one beyond each end.
Indices == -1..(length + 1)

---------------------------------------------------------------------------
(* Spec: any calls in any order *)

InsertAtHead ==
    /\ \E v \in Values : Call_insert_at_head(v, TRUE)
    /\ UNCHANGED scenario_vars

InsertAtTail ==
    /\ \E v \in Values : Call_insert_at_tail(v, TRUE)
    /\ UNCHANGED scenario_vars

InsertAtPosition ==
    /\ \E index \in Indices, v \in Values :
          Call_insert_at_position(index, v, TRUE)
    /\ UNCHANGED scenario_vars

DeleteAtPosition ==
    /\ \E index \in Indices : Call_delete_at_position(index, TRUE)
    /\ UNCHANGED scenario_vars

Clear ==
    /\ Call_clear(TRUE)
    /\ UNCHANGED scenario_vars

Undo ==
    /\ Call_undo_last_operation(TRUE)
    /\ UNCHANGED scenario_vars

BulkLoad ==
    /\ \E data \in LoadData : Call_load_from_list(data, TRUE)
    /\ UNCHANGED scenario_vars

ClearHistory ==
    /\ Call_clear_history
    /\ UNCHANGED scenario_vars

Next ==
    \/ InsertAtHead
    \/ InsertAtTail
    \/ InsertAtPosition
    \/ DeleteAtPosition
    \/ Clear
    \/ Undo
    \/ BulkLoad
    \/ ClearHistory

Spec == Init /\ [][Next]_vars

---------------------------------------------------------------------------
(* UndoSpec: a fresh list, at most MaxOps successful mutating calls, and   *)
(* then undo_last_operation called again and again with nothing between.  *)
(* trace holds the value sequence after each of the mutating calls, undos  *)
(* counts the undo calls (no further than one past Len(trace)), and tick   *)
(* turns over at every undo call.                                          *)

Mutate ==
    /\ undos = 0
    /\ Len(trace) < MaxOps
    /\ \/ \E v \in Values : Call_insert_at_head(v, FALSE)
       \/ \E v \in Values : Call_insert_at_tail(v, FALSE)
       \/ \E index \in 0..length, v \in Values :
             Call_insert_at_position(index, v, FALSE)
       \/ \E index \in 0..(length - 1) : Call_delete_at_position(index, FALSE)
       \/ Call_clear(FALSE)
    /\ trace' = Append(trace, to_list(Self'))
    /\ UNCHANGED <<undos, tick, call_vars, race_vars, draw_vars>>

UndoAgain ==
    /\ Call_undo_last_operation(FALSE)
    /\ undos' = IF undos <= Len(trace) THEN undos + 1 ELSE undos
    /\ tick' = 1 - tick
    /\ UNCHANGED <<trace, call_vars, race_vars, draw_vars>>

UndoNext == Mutate \/ UndoAgain

UndoSpec == Init /\ [][UndoNext]_vars

\* One more undo call has been made: UndoAgain is the only action that turns
\* tick over, and it can always be taken.
UndoCalled == tick' = 1 - tick

\* The caller of the scenario keeps calling undo_last_operation.
FairUndoSpec == UndoSpec /\ WF_tick(UndoCalled)

---------------------------------------------------------------------------
(* CallSpec: calls in any order, each one leaving its arguments in args and *)
(* the list object it was made on in old.                                  *)

\* The call of this step had arguments index and v and was made on Self.
Made(index, v) ==
    /\ args' = [index |-> index, value |-> v]
    /\ old' = Self
    /\ UNCHANGED <<undo_vars, race_vars, draw_vars>>

\* CallSpec follows a call only to a list and a history within its bounds.
Kept == length' <= MaxLen /\ Len(operation_history') <= MaxEntries

Obs_insert_at_head ==
    \E v \in Values :
        Call_insert_at_head(v, FALSE) /\ Kept /\ Made(NoneIdx, v)

Obs_insert_at_tail ==
    \E v \in Values :
        Call_insert_at_tail(v, FALSE) /\ Kept /\ Made(NoneIdx, v)

Obs_insert_at_position ==
    \E index \in Indices, v \in Values :
        Call_insert_at_position(index, v, FALSE) /\ Kept /\ Made(index, v)

Obs_delete_at_position ==
    \E index \in Indices :
        Call_delete_at_position(index, FALSE) /\ Kept /\ Made(index, NoneVal)

Obs_clear ==
    Call_clear(FALSE) /\ Kept /\ Made(NoneIdx, NoneVal)

\* undo_last_operation is followed wherever it leads: called again and
\* again it restores ever shorter lists, and no other call is followed from
\* a history beyond MaxEntries.
Obs_undo_last_operation ==
    Call_undo_last_operation(FALSE) /\ Made(NoneIdx, NoneVal)

Obs_search ==
    \E v \in Values : Call_search(v) /\ Made(NoneIdx, v)

Obs_clear_history ==
    Call_clear_history /\ Made(NoneIdx, NoneVal)

CallNext ==
    \/ Obs_insert_at_head
    \/ Obs_insert_at_tail
    \/ Obs_insert_at_position
    \/ Obs_delete_at_position
    \/ Obs_clear
    \/ Obs_undo_last_operation
    \/ Obs_search
    \/ Obs_clear_history

CallSpec == Init /\ [][CallNext]_vars

---------------------------------------------------------------------------
(* EditSpec: successful calls of insert, delete, clear and undo and no      *)
(* other, from a fresh list: the history is never cleared.  Each call      *)
(* leaves args and old as in CallSpec.                                      *)

\* EditSpec follows an insert, a delete or a clear only to a list and a
\* history within its bounds.
KeptEdit == length' <= MaxLen /\ Len(operation_history') <= MaxEdits

Edit_insert_at_head ==
    \E v \in Values :
        Call_insert_at_head(v, FALSE) /\ KeptEdit /\ Made(NoneIdx, v)

Edit_insert_at_tail ==
    \E v \in Values :
        Call_insert_at_tail(v, FALSE) /\ KeptEdit /\ Made(NoneIdx, v)

Edit_insert_at_position ==
    \E index \in 0..length, v \in Values :
        Call_insert_at_position(index, v, FALSE) /\ KeptEdit /\ Made(index, v)

Edit_delete_at_position ==
    \E index \in 0..(length - 1) :
        Call_delete_at_position(index, FALSE) /\ KeptEdit
            /\ Made(index, NoneVal)

Edit_clear ==
    Call_clear(FALSE) /\ KeptEdit /\ Made(NoneIdx, NoneVal)

\* undo_last_operation is followed wherever it leads, as in CallSpec.
Edit_undo_last_operation ==
    Call_undo_last_operation(FALSE) /\ Made(NoneIdx, NoneVal)

EditNext ==
    \/ Edit_insert_at_head
    \/ Edit_insert_at_tail
    \/ Edit_insert_at_position
    \/ Edit_delete_at_position
    \/ Edit_clear
    \/ Edit_undo_last_operation

EditSpec == Init /\ [][EditNext]_vars

---------------------------------------------------------------------------
(* DrawSpec: the insert, delete, clear and undo commands of the window,     *)
(* each drawing the list when its call has succeeded.                       *)

\* The values typed into the value field: any text that is not empty, the
\* text None among them.
DrawValues == {"A", "None"}

\* update_display() at the end of a command: reached when the call raised
\* nothing (the except branch only sets the status bar).
Drawn ==
    /\ canvas' = IF lastCall'.exc = "" THEN draw(Self') ELSE canvas
    /\ UNCHANGED <<undo_vars, call_vars, race_vars>>

\* LinkedListApp._insert("head")
Draw_insert_head ==
    \E v \in DrawValues : Call_insert_at_head(v, FALSE) /\ KeptEdit /\ Drawn

\* LinkedListApp._insert("tail")
Draw_insert_tail ==
    \E v \in DrawValues : Call_insert_at_tail(v, FALSE) /\ KeptEdit /\ Drawn

\* LinkedListApp._insert("position"): the index field takes digits only.
Draw_insert_position ==
    \E index \in 0..(length + 1), v \in DrawValues :
        Call_insert_at_position(index, v, FALSE) /\ KeptEdit /\ Drawn

\* LinkedListApp._delete
Draw_delete ==
    \E index \in 0..length :
        Call_delete_at_position(index, FALSE) /\ KeptEdit /\ Drawn

\* LinkedListApp._clear_list, confirmed in its dialog: an empty list is
\* left alone.
Draw_clear_list ==
    /\ length # 0
    /\ Call_clear(FALSE) /\ KeptEdit /\ Drawn

\* LinkedListApp._undo: draws when undo_last_operation returned True.
Draw_undo ==
    /\ Call_undo_last_operation(FALSE)
    /\ canvas' = IF lastCall'.ret = shown(TRUE) THEN draw(Self') ELSE canvas
    /\ UNCHANGED <<undo_vars, call_vars, race_vars>>

DrawNext ==
    \/ Draw_insert_head
    \/ Draw_insert_tail
    \/ Draw_insert_position
    \/ Draw_delete
    \/ Draw_clear_list
    \/ Draw_undo

DrawSpec == Init /\ [][DrawNext]_vars

---------------------------------------------------------------------------
(* RaceSpec: a list is built call by call; then two callers each make one   *)
(* call of insert_at_tail or delete_at_position on it with no lock, and the *)
(* statements of the two calls run in any order.  A caller is a record of   *)
(* its call, the line it is at (pc) and its local variables; no node is    *)
(* reclaimed or renumbered while a local variable may hold it.              *)

\* The line a call starts at.
first_line(op) == IF op = "insert_at_tail" THEN "l63" ELSE "l92"

\* A caller about to make a call.  mixed: some statement of the call ran
\* while the other caller was inside its call.
Thread(op, v, index) ==
    [op |-> op, pc |-> first_line(op), value |-> v, index |-> index,
     new_node |-> NoneRef, current |-> NoneRef, ret |-> NoneVal, exc |-> "",
     mixed |-> FALSE]

\* The statement is done and the caller is at line pc.
Goes(L, th, pc) == [self |-> L, thread |-> [th EXCEPT !.pc = pc]]

\* The statement raises e: the call ends there.
Raises(L, th, e) ==
    [self |-> L, thread |-> [th EXCEPT !.pc = "done", !.exc = e]]

\* insert_at_tail with no "self.length += 1".
insert_at_tail_statement_keeps_length(L, th) ==
    CASE th.pc = "l63" ->
           [self |-> Node(L, th.value),
            thread |-> [th EXCEPT !.new_node = NewId(L), !.pc = "l64"]]
      [] th.pc = "l64" ->
           Goes(L, th, IF L.head = NoneRef THEN "l65" ELSE "l67")
      [] th.pc = "l65" ->
           Goes([L EXCEPT !.head = th.new_node, !.tail = th.new_node],
                th, "l70")
      [] th.pc = "l67" ->
           Goes([L EXCEPT !.prev[th.new_node] = L.tail], th, "l68")
      [] th.pc = "l68" ->
           IF L.tail = NoneRef THEN Raises(L, th, "AttributeError")
           ELSE Goes([L EXCEPT !.next[L.tail] = th.new_node], th, "l69")
      [] th.pc = "l69" ->
           Goes([L EXCEPT !.tail = th.new_node], th, "l70")
      [] th.pc = "l70" ->
           Goes(L, th, "l71")
      [] th.pc = "l71" ->
           Goes(_record_operation(L, "INSERT_TAIL", th.value, L.length - 1),
                th, "done")

\* insert_at_tail, one statement: the statement at line pc, run on the list
\* as it is then.
insert_at_tail_statement(L, th) ==
    CASE th.pc = "l63" ->
           [self |-> Node(L, th.value),
            thread |-> [th EXCEPT !.new_node = NewId(L), !.pc = "l64"]]
      [] th.pc = "l64" ->
           Goes(L, th, IF L.head = NoneRef THEN "l65" ELSE "l67")
      [] th.pc = "l65" ->
           Goes([L EXCEPT !.head = th.new_node, !.tail = th.new_node],
                th, "l70")
      [] th.pc = "l67" ->
           Goes([L EXCEPT !.prev[th.new_node] = L.tail], th, "l68")
      [] th.pc = "l68" ->
           IF L.tail = NoneRef THEN Raises(L, th, "AttributeError")
           ELSE Goes([L EXCEPT !.next[L.tail] = th.new_node], th, "l69")
      [] th.pc = "l69" ->
           Goes([L EXCEPT !.tail = th.new_node], th, "l70")
      [] th.pc = "l70" ->
           Goes([L EXCEPT !.length = @ + 1], th, "l71")
      [] th.pc = "l71" ->
           Goes(_record_operation(L, "INSERT_TAIL", th.value, L.length - 1),
                th, "done")

\* k times cur = cur.next (links = next) or cur = cur.prev (links = prev)
\* on a list whose chain may end early: -1 for the AttributeError of
\* None.next or None.prev.
RECURSIVE follow(_, _, _)
follow(links, cur, k) ==
    IF k = 0 THEN cur
    ELSE IF cur = NoneRef THEN -1
    ELSE follow(links, links[cur], k - 1)

\* _get_node on a list another call is changing: IndexError, the
\* AttributeError of a chain that ends early, or the node (None when the
\* walk starts at a head or tail that is None).
_get_node_or_raise(L, index) ==
    IF index < 0 \/ index >= L.length
    THEN [exc |-> "IndexError", node |-> NoneRef]
    ELSE LET c == IF index <= L.length \div 2
                  THEN follow(L.next, L.head, index)
                  ELSE follow(L.prev, L.tail, L.length - 1 - index)
         IN  IF c = -1 THEN [exc |-> "AttributeError", node |-> NoneRef]
             ELSE [exc |-> "", node |-> c]

\* delete_at_position, one statement ("current = self._get_node(index)" is
\* one statement of it).  Reading an attribute of None raises
\* AttributeError.
delete_at_position_statement(L, th) ==
    CASE th.pc = "l92" ->
           IF th.index < 0 \/ th.index >= L.length
           THEN Raises(L, th, "IndexError")
           ELSE Goes(L, th, "l94")
      [] th.pc = "l94" ->
           Goes(L, th, IF L.length = 1 THEN "l95" ELSE "l97")
      [] th.pc = "l95" ->
           IF L.head = NoneRef THEN Raises(L, th, "AttributeError")
           ELSE Goes(L, [th EXCEPT !.ret = L.value[L.head]], "l96")
      [] th.pc = "l96" ->
           Goes([L EXCEPT !.head = NoneRef, !.tail = NoneRef], th, "l112")
      [] th.pc = "l97" ->
           Goes(L, th, IF th.index = 0 THEN "l98" ELSE "l102")
      [] th.pc = "l98" ->
           IF L.head = NoneRef THEN Raises(L, th, "AttributeError")
           ELSE Goes(L, [th EXCEPT !.ret = L.value[L.head]], "l99")
      [] th.pc = "l99" ->
           IF L.head = NoneRef THEN Raises(L, th, "AttributeError")
           ELSE Goes([L EXCEPT !.head = L.next[L.head]], th, "l100")
      [] th.pc = "l100" ->
           Goes(L, th, IF L.head # NoneRef THEN "l101" ELSE "l112")
      [] th.pc = "l101" ->
           IF L.head = NoneRef THEN Raises(L, th, "AttributeError")
           ELSE Goes([L EXCEPT !.prev[L.head] = NoneRef], th, "l112")
      [] th.pc = "l102" ->
           Goes(L, th, IF th.index = L.length - 1 THEN "l103" ELSE "l108")
      [] th.pc = "l103" ->
           IF L.tail = NoneRef THEN Raises(L, th, "AttributeError")
           ELSE Goes(L, [th EXCEPT !.ret = L.value[L.tail]], "l104")
      [] th.pc = "l104" ->
           IF L.tail = NoneRef THEN Raises(L, th, "AttributeError")
           ELSE Goes([L EXCEPT !.tail = L.prev[L.tail]], th, "l105")
      [] th.pc = "l105" ->
           Goes(L, th, IF L.tail # NoneRef THEN "l106" ELSE "l112")
      [] th.pc = "l106" ->
           IF L.tail = NoneRef THEN Raises(L, th, "AttributeError")
           ELSE Goes([L EXCEPT !.next[L.tail] = NoneRef], th, "l112")
      [] th.pc = "l108" ->
           LET r == _get_node_or_raise(L, th.index)
           IN  IF r.exc # "" THEN Raises(L, th, r.exc)
               ELSE Goes(L, [th EXCEPT !.current = r.node], "l109")
      [] th.pc = "l109" ->
           IF th.current = NoneRef THEN Raises(L, th, "AttributeError")
           ELSE Goes(L, [th EXCEPT !.ret = L.value[th.current]], "l110")
      [] th.pc = "l110" ->
           IF L.prev[th.current] = NoneRef
           THEN Raises(L, th, "AttributeError")
           ELSE Goes([L EXCEPT !.next[L.prev[th.current]] =
                                    L.next[th.current]], th, "l111")
      [] th.pc = "l111" ->
           IF L.next[th.current] = NoneRef
           THEN Raises(L, th, "AttributeError")
           ELSE Goes([L EXCEPT !.prev[L.next[th.current]] =
                                    L.prev[th.current]], th, "l112")
      [] th.pc = "l112" ->
           Goes([L EXCEPT !.length = @ - 1], th, "l113")
      [] th.pc = "l113" ->
           Goes(_record_operation(L, "DELETE", th.ret, th.index), th, "done")

\* The statement the caller is at.
statement(L, th) ==
    IF th.op = "insert_at_tail" THEN insert_at_tail_statement(L, th)
    ELSE delete_at_position_statement(L, th)

\* The calls a caller may make on the list as it is when both start.
RaceCalls ==
    {Thread("insert_at_tail", v, NoneIdx) : v \in Values}
        \cup {Thread("delete_at_position", NoneVal, i) : i \in 0..length}

\* The list is built by calls that each run from start to end.
Race_insert_at_tail ==
    /\ threads = <<>>
    /\ length < MaxRaceLen
    /\ \E v \in Values : Call_insert_at_tail(v, FALSE)
    /\ UNCHANGED scenario_vars

\* Two callers start one call each.
Race_begin ==
    /\ threads = <<>>
    /\ \E c1 \in RaceCalls, c2 \in RaceCalls : threads' = <<c1, c2>>
    /\ UNCHANGED <<list_vars, lastCall, undo_vars, call_vars, draw_vars>>

\* A caller inside its call: it has run a statement and has not returned.
Inside(th) == th.pc \notin {first_line(th.op), "done"}

\* One caller runs the statement it is at.
Race_step ==
    /\ threads # <<>>
    /\ \E t \in 1..2 :
          /\ threads[t].pc # "done"
          /\ LET r == statement(Self, threads[t])
                 th == [r.thread EXCEPT !.mixed = @ \/ Inside(threads[3 - t])]
             IN  /\ head' = r.self.head
                 /\ tail' = r.self.tail
                 /\ length' = r.self.length
                 /\ next' = r.self.next
                 /\ prev' = r.self.prev
                 /\ value' = r.self.value
                 /\ operation_history' = r.self.operation_history
                 /\ threads' = [threads EXCEPT ![t] = th]
                 /\ lastCall' = IF th.pc = "done"
                                THEN [op |-> th.op, ret |-> th.ret,
                                      exc |-> th.exc]
                                ELSE lastCall
    /\ UNCHANGED <<undo_vars, call_vars, draw_vars>>

RaceNext ==
    \/ Race_insert_at_tail
    \/ Race_begin
    \/ Race_step

RaceSpec == Init /\ [][RaceNext]_vars

---------------------------------------------------------------------------
(* JSON text.  In LoadSpec a text is a sequence of characters, so that what *)
(* json.dump writes, what str.replace rewrites and what json.loads reads   *)
(* are computed character by character.                                     *)

\* The texts the commands of LoadSpec are given: a, a'a, ',' and a"a.
Texts == {<<"a">>, <<"a", "'", "a">>, <<"'", ",", "'">>, <<"a", "\"", "a">>}

\* The concatenation of a sequence of sequences, sep put between them.
RECURSIVE join(_, _)
join(parts, sep) ==
    IF parts = <<>> THEN <<>>
    ELSE IF Len(parts) = 1 THEN parts[1]
         ELSE parts[1] \o sep \o join(Tail(parts), sep)

\* json's encoding of the characters of a str: " and \ get a \ before them
\* (no text here holds a control character, and ensure_ascii leaves the
\* other characters of these texts as they are).
RECURSIVE escaped(_)
escaped(text) ==
    IF text = <<>> THEN <<>>
    ELSE (IF Head(text) \in {"\"", "\\"} THEN <<"\\", Head(text)>>
          ELSE <<Head(text)>>) \o escaped(Tail(text))

\* json's encoding of a str.
quoted(text) == <<"\"">> \o escaped(text) \o <<"\"">>

\* json.dumps(values): ["x", "y"], what is typed into the dialog for values.
dumps(values) ==
    <<"[">> \o join([i \in 1..Len(values) |-> quoted(values[i])], <<",", " ">>)
           \o <<"]">>

\* _export_to_json: json.dump(to_list(), f, ensure_ascii=False, indent=2),
\* each item on a line of its own after two spaces; [] for no item.
dump_indent(values) ==
    IF values = <<>> THEN <<"[", "]">>
    ELSE <<"[", "\n", " ", " ">>
             \o join([i \in 1..Len(values) |-> quoted(values[i])],
                     <<",", "\n", " ", " ">>)
             \o <<"\n", "]">>

\* input_str.replace("'", '"')
replace_quotes(text) ==
    [i \in 1..Len(text) |-> IF text[i] = "'" THEN "\"" ELSE text[i]]

\* The whitespace json.loads skips between tokens.
json_ws == {" ", "\n", "\t", "\r"}

\* The first position from i on that holds no whitespace.
RECURSIVE skip_ws(_, _)
skip_ws(text, i) ==
    IF i <= Len(text) /\ text[i] \in json_ws THEN skip_ws(text, i + 1) ELSE i

\* What json.loads makes of a malformed text: it raises JSONDecodeError, a
\* ValueError.
Malformed == [ok |-> FALSE, items |-> <<>>, next |-> 0]

\* json's reading of a str from position i, after its opening ": the
\* characters up to the closing ", a \ taking the character after it (only
\* \" and \\ are written by the encodings above).
RECURSIVE scan_str(_, _, _)
scan_str(text, i, acc) ==
    IF i > Len(text) THEN [ok |-> FALSE, value |-> <<>>, next |-> 0]
    ELSE IF text[i] = "\"" THEN [ok |-> TRUE, value |-> acc, next |-> i + 1]
    ELSE IF text[i] = "\\"
         THEN IF i + 1 <= Len(text) /\ text[i + 1] \in {"\"", "\\"}
              THEN scan_str(text, i + 2, Append(acc, text[i + 1]))
              ELSE [ok |-> FALSE, value |-> <<>>, next |-> 0]
    ELSE scan_str(text, i + 1, Append(acc, text[i]))

\* json's reading of the items of an array from position i, where an item
\* starts: a str, then "," and the next item, or "]".
RECURSIVE scan_items(_, _, _)
scan_items(text, i, acc) ==
    IF i > Len(text) \/ text[i] # "\"" THEN Malformed
    ELSE LET item == scan_str(text, i + 1, <<>>)
             j == skip_ws(text, item.next)
         IN  IF ~item.ok \/ j > Len(text) THEN Malformed
             ELSE IF text[j] = ","
                  THEN scan_items(text, skip_ws(text, j + 1),
                                  Append(acc, item.value))
             ELSE IF text[j] = "]"
                  THEN [ok |-> TRUE, items |-> Append(acc, item.value),
                        next |-> j + 1]
             ELSE Malformed

\* json.loads of a text that is an array of str, or malformed (the texts
\* here hold no other JSON value): "[", the items, "]", and nothing but
\* whitespace after it.
loads(text) ==
    LET i == skip_ws(text, 1)
        j == skip_ws(text, i + 1)
        r == IF i > Len(text) \/ text[i] # "[" THEN Malformed
             ELSE IF j <= Len(text) /\ text[j] = "]"
                  THEN [ok |-> TRUE, items |-> <<>>, next |-> j + 1]
                  ELSE scan_items(text, j, <<>>)
    IN  IF r.ok /\ skip_ws(text, r.next) > Len(text) THEN r ELSE Malformed

---------------------------------------------------------------------------
(* LoadSpec: the two bulk loads of the window, each given a list of texts   *)
(* as JSON text, and the clear-history command between them.                *)

\* What follows the reading of the text in both commands: a text that did
\* not parse raises (caught, shown in the status bar); a list is loaded.
Loaded(name, r, values) ==
    /\ IF ~r.ok
       THEN /\ UNCHANGED list_vars
            /\ lastCall' = [op |-> name, ret |-> NoneVal, exc |-> "ValueError"]
       ELSE Call(name, load_from_list(Self, [is_list |-> TRUE,
                                             items |-> r.items]).self,
                 NoneVal, "")
    /\ Made(NoneIdx, values)

\* A load is made on a history of at most MaxEntries entries.
FewEntries == Len(operation_history) <= MaxEntries

\* LinkedListApp._load_from_list: json.loads(input_str.replace("'", '"')),
\* the text typed being the JSON text of values.
Load_from_list ==
    /\ FewEntries
    /\ \E values \in SeqsUpTo(Texts, MaxTexts) :
          Loaded("_load_from_list", loads(replace_quotes(dumps(values))),
                 values)

\* LinkedListApp._import_from_json: json.load(f) of a file that
\* _export_to_json wrote for values.
Import_from_json ==
    /\ FewEntries
    /\ \E values \in SeqsUpTo(Texts, MaxTexts) :
          Loaded("_import_from_json", loads(dump_indent(values)), values)

LoadNext ==
    \/ Load_from_list
    \/ Import_from_json
    \/ Obs_clear_history

LoadSpec == Init /\ [][LoadNext]_vars

---------------------------------------------------------------------------
(* NodeSpec: a list built to MaxNodes by insert_at_head and insert_at_tail, *)
(* and _get_node called on it with any index.  lastCall shows the node     *)
(* returned (as text) and the number of link steps the call made.          *)

Node_insert_at_head ==
    /\ length < MaxNodes
    /\ \E v \in Values : Call_insert_at_head(v, FALSE) /\ Made(NoneIdx, v)

Node_insert_at_tail ==
    /\ length < MaxNodes
    /\ \E v \in Values : Call_insert_at_tail(v, FALSE) /\ Made(NoneIdx, v)

Node_get_node ==
    \E index \in Indices :
        LET r == _get_node(Self, index)
        IN  /\ lastCall' = [op |-> "_get_node", ret |-> ToString(r.node),
                            exc |-> r.exc, steps |-> r.steps]
            /\ UNCHANGED list_vars
            /\ Made(index, NoneVal)

NodeNext ==
    \/ Node_insert_at_head
    \/ Node_insert_at_tail
    \/ Node_get_node

NodeSpec == Init /\ [][NodeNext]_vars

---------------------------------------------------------------------------
(* The claims *)

\* The last entry of a history.
Last(h) == h[Len(h)]

\* A history without its last entry.
Front(h) == SubSeq(h, 1, Len(h) - 1)

\* The step is a call of undo_last_operation.
IsUndo == lastCall'.op = "undo_last_operation"

\* The step is a successful call of one of the five mutating methods.
IsMutation ==
    /\ lastCall'.op \in {"insert_at_head", "insert_at_tail",
                         "insert_at_position", "delete_at_position", "clear"}
    /\ lastCall'.exc = ""

\* C1: after any sequence of calls, rejected ones included, length is the
\* number of nodes met by following next from head until None, and when
\* length > 0 the last node met is tail.
C1_LengthIsWalkFromHead ==
    LET w == walk(Self, head)
    IN  /\ Len(w) = length
        /\ length > 0 => w[Len(w)] = tail

\* C1 witness: a node was deleted from the inside of a three-node list.
C1_Witness ==
    /\ lastCall.op = "delete_at_position" /\ lastCall.exc = ""
    /\ length = 2
    /\ Last(operation_history).index = 1

\* C2: every node n of the chain from head has n.next.prev = n when n.next is a
\* node and n.prev.next = n when n.prev is a node; head.prev and tail.next
\* are None.
C2_LinksAreMutual ==
    /\ \A n \in {walk(Self, head)[i] : i \in 1..Len(walk(Self, head))} :
          /\ next[n] # NoneRef => prev[next[n]] = n
          /\ prev[n] # NoneRef => next[prev[n]] = n
    /\ head # NoneRef => prev[head] = NoneRef
    /\ tail # NoneRef => next[tail] = NoneRef

\* C2 witness: a node was spliced in between two others.
C2_Witness ==
    /\ lastCall.op = "insert_at_position" /\ lastCall.exc = ""
    /\ Last(operation_history).type = "INSERT_POS"
    /\ length = 3

\* C3: length = 0 exactly when head is None, exactly when tail is None.
C3_EmptyIffNoHeadIffNoTail ==
    /\ length = 0 <=> head = NoneRef
    /\ head = NoneRef <=> tail = NoneRef

\* C3 witness: the only node was deleted.
C3_Witness ==
    /\ lastCall.op = "delete_at_position" /\ lastCall.exc = ""
    /\ length = 0

\* C4: from a fresh list and n successful mutating calls, the k-th undo in a
\* row (1 <= k <= n) leaves the value sequence that followed the first n - k
\* calls (the empty one for k = n), and the (n+1)-th undo changes nothing.
C4_UndoWalksBackThroughStates ==
    undos >= 1 =>
        to_list(Self) = IF undos >= Len(trace) THEN <<>>
                        ELSE trace[Len(trace) - undos]

\* C5: an undo call that finds at least 2 entries leaves the history with
\* its most recent entry removed and the other entries as they were.
C5_UndoRemovesOnlyLastEntry ==
    [][(IsUndo /\ Len(operation_history) >= 2)
          => operation_history' = Front(operation_history)]_vars

\* The last call was an undo that returned False, and the list holds the
\* state of the oldest history entry, if there is one.
UndoHasStopped ==
    /\ lastCall.op = "undo_last_operation"
    /\ lastCall.ret = shown(FALSE)
    /\ operation_history # <<>>
          => to_list(Self) = operation_history[1].state

\* C6: undo called again and again with nothing between eventually returns
\* False, and from then on the list holds the state of the oldest history
\* entry and stays as it is.
C6_RepeatedUndoStops ==
    (undos > 0) ~> []UndoHasStopped

C8_UndoWithNothingToUndo ==
    [][(IsUndo /\ Len(operation_history) <= 1)
          => /\ lastCall'.ret = shown(FALSE)
             /\ lastCall'.exc = ""
             /\ UNCHANGED list_vars]_vars

\* C8 witness: an undo returned False on a list with one node and one entry.
C8_Witness ==
    /\ lastCall.op = "undo_last_operation" /\ lastCall.ret = shown(FALSE)
    /\ Len(operation_history) = 1
    /\ length = 1

\* C9: every successful insert_at_head, insert_at_tail, insert_at_position,
\* delete_at_position or clear (clear of an empty list too) appends exactly
\* one entry, whose state is the value sequence the call leaves.
C9_MutationAppendsOneEntry ==
    [][IsMutation
          => /\ Len(operation_history') = Len(operation_history) + 1
             /\ Front(operation_history') = operation_history
             /\ Last(operation_history').state = to_list(Self')]_vars

\* C9 witness: clear was called on a list that a clear had just emptied.
C9_Witness ==
    /\ lastCall.op = "clear"
    /\ Len(operation_history) = 2
    /\ operation_history[1].type = "CLEAR"
    /\ operation_history[2].type = "CLEAR"

\* C10: a bulk load of N values replaces the contents and adds exactly one
\* history entry, not one per loaded value.
C10_BulkLoadIsOneEntry ==
    [][lastCall'.op = "load_from_list"
          => Len(operation_history') = Len(operation_history) + 1]_vars

\* C11: from any state that insert, delete, clear and undo calls reach, with
\* value sequence S, clear() and then one undo_last_operation() leave the
\* value sequence S again, with the length of S.
C11_ClearThenUndoRestores ==
    [][(lastCall.op = "clear" /\ IsUndo)
          => /\ to_list(Self') = to_list(old)
             /\ length' = old.length]_vars

\* C11 witness: an undo brought back two values that a clear had removed.
C11_Witness ==
    /\ lastCall.op = "undo_last_operation"
    /\ old.length = 0
    /\ old.operation_history # <<>>
    /\ Last(old.operation_history).type = "CLEAR"
    /\ length = 2

\* C12: insert_at_position with index < 0 or index > length raises
\* IndexError and leaves the list object as it was: head, tail, length, the
\* nodes and their links and values, and the history.
C12_RejectedInsertChangesNothing ==
    (/\ lastCall.op = "insert_at_position"
     /\ (args.index < 0 \/ args.index > old.length))
        => /\ lastCall.exc = "IndexError"
           /\ Self = old

\* C12 witness: an insert beyond the end of a two-node list was rejected.
C12_Witness ==
    /\ lastCall.op = "insert_at_position" /\ lastCall.exc = "IndexError"
    /\ args.index > old.length
    /\ length = 2

\* C13: delete_at_position with index < 0 or index >= length (any index on
\* an empty list) raises IndexError and leaves the list object and the
\* history as they were.
C13_RejectedDeleteChangesNothing ==
    (/\ lastCall.op = "delete_at_position"
     /\ (args.index < 0 \/ args.index >= old.length))
        => /\ lastCall.exc = "IndexError"
           /\ Self = old

\* C13 witness: a delete at index 0 of an empty list was rejected.
C13_Witness ==
    /\ lastCall.op = "delete_at_position" /\ lastCall.exc = "IndexError"
    /\ args.index = 0
    /\ length = 0

\* s with v put in before its element of index i (counted from 0).
inserted(s, i, v) == SubSeq(s, 1, i) \o <<v>> \o SubSeq(s, i + 1, Len(s))

\* s without its element of index i (counted from 0).
removed(s, i) == SubSeq(s, 1, i) \o SubSeq(s, i + 2, Len(s))

\* The index an insert call puts its value at: 0 for insert_at_head, the
\* length for insert_at_tail, the index given to insert_at_position.
InsertIndex ==
    CASE lastCall.op = "insert_at_head" -> 0
      [] lastCall.op = "insert_at_tail" -> old.length
      [] OTHER -> args.index

\* C14: an insert of v at index i with 0 <= i <= length (insert_at_head,
\* insert_at_tail, insert_at_position) succeeds and leaves the values before
\* i, then v, then the values from i on, and length one more.
C14_InsertPutsValueAtIndex ==
    (/\ lastCall.op \in {"insert_at_head", "insert_at_tail",
                          "insert_at_position"}
     /\ 0 <= InsertIndex /\ InsertIndex <= old.length)
        => /\ lastCall.exc = ""
           /\ to_list(Self) = inserted(to_list(old), InsertIndex, args.value)
           /\ length = old.length + 1

\* C14 witness: insert_at_position put a value between two others.
C14_Witness ==
    /\ lastCall.op = "insert_at_position" /\ lastCall.exc = ""
    /\ args.index = 1
    /\ old.length = 2
    /\ length = 3

\* C15: delete_at_position(i) with 0 <= i < length returns the value at i
\* and leaves the other values in their order, length one less.
C15_DeleteRemovesValueAtIndex ==
    (/\ lastCall.op = "delete_at_position"
     /\ 0 <= args.index /\ args.index < old.length)
        => /\ lastCall.exc = ""
           /\ lastCall.ret = to_list(old)[args.index + 1]
           /\ to_list(Self) = removed(to_list(old), args.index)
           /\ length = old.length - 1

\* C15 witness: the middle one of three values was deleted.
C15_Witness ==
    /\ lastCall.op = "delete_at_position" /\ lastCall.exc = ""
    /\ args.index = 1
    /\ old.length = 3
    /\ length = 2

\* C16: insert_at_position(i, v) with 0 <= i <= length and then
\* delete_at_position(i) returns v and leaves the value sequence and the
\* length that were there before the insert.
C16_InsertThenDeleteRestores ==
    [][(/\ lastCall.op = "insert_at_position" /\ lastCall.exc = ""
        /\ lastCall'.op = "delete_at_position"
        /\ args'.index = args.index)
          => /\ lastCall'.exc = ""
             /\ lastCall'.ret = args.value
             /\ to_list(Self') = to_list(old)
             /\ length' = old.length]_vars

\* C16 witness: a value spliced in at index 1 of a two-node list was deleted
\* at index 1 by the next call.
C16_Witness ==
    /\ lastCall.op = "delete_at_position" /\ lastCall.exc = ""
    /\ args.index = 1
    /\ old.length = 3
    /\ Last(old.operation_history).type = "INSERT_POS"
    /\ Last(old.operation_history).index = 1
    /\ length = 2

\* The smallest index (counted from 0) at which s holds v; -1 when s does
\* not hold v.
FirstIndex(s, v) ==
    IF \E i \in 1..Len(s) : s[i] = v
    THEN (CHOOSE i \in 1..Len(s) :
              s[i] = v /\ \A j \in 1..(i - 1) : s[j] # v) - 1
    ELSE -1

\* C17: search(v) returns the smallest index whose value, head to tail, is
\* v, and -1 exactly when no value is v (on the empty list too).
C17_SearchReturnsFirstIndex ==
    lastCall.op = "search"
        => lastCall.ret = ToString(FirstIndex(to_list(old), args.value))

\* C17 witness: search returned 1 on a list that holds the value at 1 and 2.
C17_Witness ==
    /\ lastCall.op = "search" /\ lastCall.ret = ToString(1)
    /\ length = 3
    /\ to_list(Self)[3] = args.value

\* C18: search, found or not, raises nothing and leaves the list object as
\* it was: head, tail, length, the nodes and their links and values, and the
\* history with every entry.
C18_SearchChangesNothing ==
    lastCall.op = "search" => (lastCall.exc = "" /\ Self = old)

\* C18 witness: search found a value in a list whose history has an entry.
C18_Witness ==
    /\ lastCall.op = "search" /\ lastCall.ret = ToString(0)
    /\ Len(operation_history) = 1

\* The entries of operation_history that the call of this step does not
\* remove: all but the last for an undo that finds two or more, else all.
Kept_entries ==
    IF IsUndo /\ Len(operation_history) >= 2
    THEN Len(operation_history) - 1
    ELSE Len(operation_history)

\* C19: an insert, delete, clear or undo leaves the stored value sequence of
\* every entry it does not remove as it was.
C19_SnapshotsAreNotChanged ==
    [][(IsMutation \/ IsUndo)
          => \A i \in 1..Kept_entries :
                /\ i <= Len(operation_history')
                /\ operation_history'[i].state = operation_history[i].state]_vars

\* C19 witness: after an undo the oldest entry still holds a value sequence
\* that is no longer the list's.
C19_Witness ==
    /\ lastCall.op = "undo_last_operation" /\ lastCall.ret = shown(TRUE)
    /\ Len(operation_history) >= 3
    /\ operation_history[1].state # to_list(Self)

\* C20: clear() removes no history entry (it appends one), and the
\* clear-history command empties the history and leaves head, tail, length
\* and the nodes with their values as they were.
C20_ClearAndClearHistoryAreIndependent ==
    [][/\ lastCall'.op = "clear"
          => /\ Len(operation_history') = Len(operation_history) + 1
             /\ Front(operation_history') = operation_history
       /\ lastCall'.op = "clear_history"
          => /\ operation_history' = <<>>
             /\ UNCHANGED <<head, tail, length, next, prev, value>>]_vars

\* C20 witness: the history of a list of two values was cleared.
C20_Witness ==
    /\ lastCall.op = "clear_history"
    /\ operation_history = <<>>
    /\ length = 2

\* C21: _get_node(i) with 0 <= i < length returns the node that i steps
\* along next from head reach, whichever way it walks (i = length // 2 on a
\* list of even length too); with any other index it raises IndexError.
C21_GetNodeIsForwardWalk ==
    lastCall.op = "_get_node"
        => IF 0 <= args.index /\ args.index < length
           THEN /\ lastCall.exc = ""
                /\ lastCall.ret = ToString(forward(Self, head, args.index))
           ELSE lastCall.exc = "IndexError"

\* C21 witness: _get_node(3) on a list of five nodes, reached from the tail.
C21_Witness ==
    /\ lastCall.op = "_get_node" /\ lastCall.exc = ""
    /\ length = 5
    /\ args.index = 3
    /\ lastCall.steps = 1

\* C26: a _get_node(i) that succeeds makes i link steps when
\* i <= length // 2 and length - 1 - i otherwise: never more than
\* length // 2.
C26_GetNodeStepsAtMostHalf ==
    (lastCall.op = "_get_node" /\ lastCall.exc = "")
        => /\ lastCall.steps = IF args.index <= length \div 2
                               THEN args.index
                               ELSE length - 1 - args.index
           /\ lastCall.steps <= length \div 2

\* C26 witness: _get_node(2) on a list of four nodes took two steps.
C26_Witness ==
    /\ lastCall.op = "_get_node" /\ lastCall.exc = ""
    /\ length = 4
    /\ args.index = 2
    /\ lastCall.steps = 2

\* C22: a bulk load of a list of texts leaves exactly these texts, in order,
\* as the values of the list, and length is their number, whatever the list
\* held before; so loading what to_list returns gives the same list again.
C22_LoadThenReadIsIdentity ==
    lastCall.op \in {"_load_from_list", "_import_from_json"}
        => /\ to_list(Self) = args.value
           /\ length = Len(args.value)

\* The values met by following prev from current until None.
RECURSIVE values_back_from(_, _)
values_back_from(L, current) ==
    IF current = NoneRef THEN <<>>
    ELSE <<L.value[current]>> \o values_back_from(L, L.prev[current])

\* C23: deleting the only element leaves head and tail None and length 0;
\* deleting index 0 of two or more elements leaves as head the node that was
\* second (the chain that started at it, now with prev None); deleting
\* index length - 1 of two or more elements leaves as tail the node that
\* was last but one (the backward chain from it, now with next None).
C23_DeleteAtTheEnds ==
    (lastCall.op = "delete_at_position" /\ lastCall.exc = "")
        => /\ old.length = 1
                => head = NoneRef /\ tail = NoneRef /\ length = 0
           /\ (old.length >= 2 /\ args.index = 0)
                => /\ head # NoneRef
                   /\ prev[head] = NoneRef
                   /\ values_from(Self, head)
                        = values_from(old, old.next[old.head])
           /\ (old.length >= 2 /\ args.index = old.length - 1)
                => /\ tail # NoneRef
                   /\ next[tail] = NoneRef
                   /\ values_back_from(Self, tail)
                        = values_back_from(old, old.prev[old.tail])

\* C23 witness: the last of three values was deleted, and the new tail
\* holds another value than the deleted node did.
C23_Witness ==
    /\ lastCall.op = "delete_at_position" /\ lastCall.exc = ""
    /\ old.length = 3 /\ args.index = 2
    /\ tail # NoneRef
    /\ value[tail] # lastCall.ret

\* The types of the entries the three insertions record.
InsertTypes == {"INSERT_HEAD", "INSERT_TAIL", "INSERT_POS"}

\* C27: every entry an insertion recorded holds an index that is a position
\* of its state, and its state holds its value there; the entry a delete
\* recorded holds a state one element shorter than the list was and the
\* value of the element that was removed.
C27_EntriesDescribeTheirEdit ==
    /\ \A k \in 1..Len(operation_history) :
          LET e == operation_history[k]
          IN  e.type \in InsertTypes
                => /\ 0 <= e.index /\ e.index < Len(e.state)
                   /\ e.state[e.index + 1] = e.value
    /\ (lastCall.op = "delete_at_position" /\ lastCall.exc = "")
          => /\ operation_history # <<>>
             /\ Last(operation_history).type = "DELETE"
             /\ Len(Last(operation_history).state) = old.length - 1
             /\ Last(operation_history).value
                  = to_list(old)[args.index + 1]

\* C27 witness: insert_at_position(length, v) on a non-empty list, the case
\* handed to insert_at_tail, has recorded its entry.
C27_Witness ==
    /\ lastCall.op = "insert_at_position" /\ lastCall.exc = ""
    /\ old.length = 2 /\ args.index = 2
    /\ operation_history # <<>>
    /\ Last(operation_history).type = "INSERT_TAIL"
    /\ Last(operation_history).index = 2

\* C24: whenever operation_history is not empty, the state of its last entry
\* is the value sequence the list holds.
C24_LastEntryIsCurrentState ==
    operation_history # <<>>
        => Last(operation_history).state = to_list(Self)

\* C24 witness: an undo has brought back a list of values, and the last
\* entry is one its replay recorded.
C24_Witness ==
    /\ lastCall.op = "undo_last_operation" /\ lastCall.ret = shown(TRUE)
    /\ length >= 1
    /\ operation_history # <<>>
    /\ Last(operation_history).type = "INSERT_TAIL"

\* The number of nodes met by following next from cur until None, when
\* None is met after at most fuel nodes; -1 when it is not.
RECURSIVE hops(_, _, _)
hops(L, cur, fuel) ==
    IF cur = NoneRef THEN 0
    ELSE IF fuel = 0 THEN -1
    ELSE LET h == hops(L, L.next[cur], fuel - 1)
         IN  IF h = -1 THEN -1 ELSE h + 1

\* C29: in every state the walk from head along next, the loop of search
\* and of to_list, meets None after at most length nodes (so the chain has
\* no cycle), the same holds for the walk from tail along prev, and a call
\* of search has returned: an index below length, or -1.
C29_WalksEndWithinLength ==
    /\ hops(Self, head, length) # -1
    /\ hops([Self EXCEPT !.next = prev], tail, length) # -1
    /\ lastCall.op = "search"
          => /\ lastCall.exc = ""
             /\ \E i \in -1..(length - 1) : lastCall.ret = ToString(i)

\* C29 witness: search went through a chain of three nodes up to None
\* without finding its value.
C29_Witness ==
    /\ lastCall.op = "search" /\ lastCall.ret = ToString(-1)
    /\ length = 3

\* C28: on the canvas the node drawn at index i has no "prev" arrow exactly
\* when i = 0 and no "next" arrow exactly when i = length - 1; exactly
\* length nodes are drawn, with the indices 0 .. length - 1 in order; the
\* summary shows the values at index 0 and length - 1 as head and tail, and
\* shows None for both exactly when length is 0.
C28_CanvasShowsTheList ==
    LET n == canvas.nodes
    IN  /\ Len(n) = length
        /\ \A k \in 1..Len(n) :
              /\ n[k].index = k - 1
              /\ ~n[k].has_prev <=> (k - 1 = 0)
              /\ ~n[k].has_next <=> (k - 1 = length - 1)
        /\ length > 0 => /\ canvas.info.head = n[1].value
                         /\ canvas.info.tail = n[length].value
        /\ (canvas.info.head = "None" /\ canvas.info.tail = "None")
              <=> (length = 0)

\* The nodes met by following next from cur, fuel of them at most.
RECURSIVE chain(_, _, _)
chain(L, cur, fuel) ==
    IF cur = NoneRef \/ fuel = 0 THEN <<>>
    ELSE <<cur>> \o chain(L, L.next[cur], fuel - 1)

\* The structure is broken: length is not the number of nodes reachable
\* from head, or tail is not the last of them, or some next/prev pair of
\* the chain is not mutually inverse.
Broken ==
    LET w == chain(Self, head, Cardinality(Nodes(Self)) + 1)
    IN  \/ Len(w) # length
        \/ (w = <<>> /\ tail # NoneRef)
        \/ (w # <<>> /\ tail # w[Len(w)])
        \/ \E i \in 1..Len(w) :
              \/ next[w[i]] # NoneRef /\ prev[next[w[i]]] # w[i]
              \/ prev[w[i]] # NoneRef /\ next[prev[w[i]]] # w[i]
              \/ i = 1 /\ prev[w[i]] # NoneRef

\* Both callers of RaceSpec have returned from their calls.
BothDone == threads # <<>> /\ threads[1].pc = "done" /\ threads[2].pc = "done"

\* C25: two calls whose statements did not mix (one ran from start to end
\* before the other) leave the structure intact; two insert_at_tail calls
\* whose statements ran in any order leave it broken exactly when both
\* linked their node to the same tail (or both found the list empty), that
\* is when neither ran its link statements after the other had set tail.
C25_MixedCallsBreakStructure ==
    BothDone
        => /\ (~threads[1].mixed /\ ~threads[2].mixed) => ~Broken
           /\ (threads[1].op = "insert_at_tail"
                    /\ threads[2].op = "insert_at_tail")
                => (Broken <=> prev[threads[1].new_node]
                                  = prev[threads[2].new_node])

\* C25 witness: two insert_at_tail calls on a list of one node have both
\* returned, and length is 3 while only two nodes are reachable from head.
C25_Witness ==
    /\ BothDone
    /\ threads[1].op = "insert_at_tail" /\ threads[2].op = "insert_at_tail"
    /\ threads[1].exc = "" /\ threads[2].exc = ""
    /\ length = 3
    /\ Len(chain(Self, head, 4)) = 2

====
